---- MODULE Spec2Model ----
(***************************************************************************)
(* Model of src/main.py: the CSV cleaning step (clean_and_merge_data), the *)
(* aggregator (monthly_breakdown), and the upload callback (update_data)   *)
(* with its persisted report file (load_processed_data) and the page       *)
(* callback (display_page).                                                *)
(*                                                                         *)
(* Representation of pandas values:                                        *)
(*   - a date is <<year, month, day>>, a monthly Period is <<year, month>>,*)
(*     NaT is the empty tuple;                                             *)
(*   - a phone is a string, a missing phone cell is the string "NaN";      *)
(*   - a price is a natural number, a missing price cell is PriceNaN;      *)
(*   - a float result is an exact fraction [num, den] in lowest terms      *)
(*     (prices are whole numbers, so no rounding error is modelled).       *)
(***************************************************************************)
EXTENDS Integers, Sequences, FiniteSets, TLC

\* ------------------------------------------------------------ bounds
MaxRows == 3            \* rows of a cleaned dataset given to the aggregator
MaxCustomers == 12      \* customer counts given to the percentage step
MaxFiles == 2           \* files of one upload given to the cleaning step
MaxFileRows == 2        \* rows of one uploaded file
MaxUploads == 2         \* upload events of one session

\* ------------------------------------------------------------ null values
NaT == <<>>
PhoneNaN == "NaN"
PriceNaN == -1

\* ------------------------------------------------------------ fractions
RECURSIVE GCD(_, _)
GCD(a, b) == IF b = 0 THEN a ELSE GCD(b, a % b)

Frac(n, d) == LET g == GCD(n, d) IN [num |-> n \div g, den |-> d \div g]
Zero == [num |-> 0, den |-> 1]
FracOfInt(n) == [num |-> n, den |-> 1]
FracMul(x, y) == Frac(x.num * y.num, x.den * y.den)

\* ------------------------------------------------------------ calendar
IsLeap(y) == (y % 4 = 0) /\ ((y % 100 # 0) \/ (y % 400 = 0))

DaysInMonth(y, m) ==
    IF m = 2 THEN (IF IsLeap(y) THEN 29 ELSE 28)
    ELSE IF m \in {4, 6, 9, 11} THEN 30 ELSE 31

RECURSIVE DaysBeforeMonth(_, _)
DaysBeforeMonth(y, m) ==
    IF m = 1 THEN 0 ELSE DaysBeforeMonth(y, m - 1) + DaysInMonth(y, m - 1)

DaysBeforeYear(y) ==
    (y - 1) * 365 + ((y - 1) \div 4) - ((y - 1) \div 100) + ((y - 1) \div 400)

\* proleptic Gregorian day number of a date (the unit of a Timedelta's .days)
Ordinal(d) == DaysBeforeYear(d[1]) + DaysBeforeMonth(d[1], d[2]) + d[3]

\* Timestamp < Timestamp; every comparison with NaT is False
DateLT(a, b) == a # NaT /\ b # NaT /\ Ordinal(a) < Ordinal(b)

\* Period('M') < Period('M'); every comparison with NaT is False
PeriodLT(a, b) ==
    a # NaT /\ b # NaT /\ (a[1] < b[1] \/ (a[1] = b[1] /\ a[2] < b[2]))

\* Series.dt.to_period('M')
to_period(d) == IF d = NaT THEN NaT ELSE <<d[1], d[2]>>

Digit(n) ==
    CASE n = 0 -> "0" [] n = 1 -> "1" [] n = 2 -> "2" [] n = 3 -> "3" [] n = 4 -> "4"
      [] n = 5 -> "5" [] n = 6 -> "6" [] n = 7 -> "7" [] n = 8 -> "8" [] OTHER -> "9"

\* the four decimal digits of a year (strptime %y gives 1969..2068)
YearStr(y) ==
    Digit((y \div 1000) % 10) \o Digit((y \div 100) % 10)
        \o Digit((y \div 10) % 10) \o Digit(y % 10)

MonthStr(m) ==
    CASE m = 1 -> "01" [] m = 2 -> "02" [] m = 3 -> "03" [] m = 4 -> "04"
      [] m = 5 -> "05" [] m = 6 -> "06" [] m = 7 -> "07" [] m = 8 -> "08"
      [] m = 9 -> "09" [] m = 10 -> "10" [] m = 11 -> "11" [] OTHER -> "12"

\* str(Period) for a monthly period, str(NaT) for NaT
PeriodStr(p) == IF p = NaT THEN "NaT" ELSE YearStr(p[1]) \o "-" \o MonthStr(p[2])

\* ------------------------------------------------------------ sequences
\* Series.unique(): the distinct values in order of first appearance
RECURSIVE unique(_)
unique(s) ==
    IF s = <<>> THEN <<>>
    ELSE LET front == unique(SubSeq(s, 1, Len(s) - 1))
             last == s[Len(s)]
         IN IF \E i \in 1..Len(front) : front[i] = last
            THEN front ELSE Append(front, last)

\* Series.sum(): missing prices are skipped
RECURSIVE PriceSum(_)
PriceSum(s) ==
    IF s = <<>> THEN 0
    ELSE (IF Head(s).price = PriceNaN THEN 0 ELSE Head(s).price) + PriceSum(Tail(s))

\* Series.nunique() of the phone column
nunique(s) == Cardinality({s[i].phone : i \in 1..Len(s)})

\* ------------------------------------------------------------ sorted()
\* CPython list.sort for fewer than 64 items: the leading run is found by
\* count_run (reversed when strictly descending), the rest is inserted by
\* binarysort.  Only "<" is used, so NaT (never less, never greater) stays
\* wherever the comparisons leave it.
RECURSIVE RunEnd(_, _, _)
RunEnd(s, i, descending) ==
    IF i = Len(s) THEN i
    ELSE IF descending
         THEN (IF PeriodLT(s[i + 1], s[i]) THEN RunEnd(s, i + 1, descending) ELSE i)
         ELSE (IF PeriodLT(s[i + 1], s[i]) THEN i ELSE RunEnd(s, i + 1, descending))

RECURSIVE Reverse(_)
Reverse(s) == IF s = <<>> THEN <<>> ELSE Append(Reverse(Tail(s)), Head(s))

RECURSIVE BinarySlot(_, _, _, _)
BinarySlot(t, pivot, l, r) ==
    LET p == l + ((r - l) \div 2)
        l2 == IF PeriodLT(pivot, t[p]) THEN l ELSE p + 1
        r2 == IF PeriodLT(pivot, t[p]) THEN p ELSE r
    IN IF l2 < r2 THEN BinarySlot(t, pivot, l2, r2) ELSE l2

RECURSIVE binarysort(_, _)
binarysort(t, rest) ==
    IF rest = <<>> THEN t
    ELSE LET pivot == Head(rest)
             l == BinarySlot(t, pivot, 1, Len(t) + 1)
         IN binarysort(SubSeq(t, 1, l - 1) \o <<pivot>> \o SubSeq(t, l, Len(t)),
                       Tail(rest))

sorted(s) ==
    IF Len(s) < 2 THEN s
    ELSE LET descending == PeriodLT(s[2], s[1])
             n == RunEnd(s, 2, descending)
             run == IF descending THEN Reverse(SubSeq(s, 1, n)) ELSE SubSeq(s, 1, n)
         IN binarysort(run, SubSeq(s, n + 1, Len(s)))

\* ------------------------------------------------------------ monthly_breakdown
\* the customers of the model, in the order sort_values gives their phones
Phones == <<"p1", "p2">>

last_visit_date(df, phone) ==
    LET dates == {df[i].job_date : i \in {j \in 1..Len(df) : df[j].phone = phone}} \ {NaT}
    IN IF dates = {} THEN NaT
       ELSE CHOOSE d \in dates : \A e \in dates : ~DateLT(d, e)

\* df.groupby('phone')['job_date'].min(): the earliest non-null date, else NaT
first_visit_date(df, phone) ==
    LET dates == {df[i].job_date : i \in {j \in 1..Len(df) : df[j].phone = phone}} \ {NaT}
    IN IF dates = {} THEN NaT
       ELSE CHOOSE d \in dates : \A e \in dates : ~DateLT(e, d)

first_visit_month(df, phone) == to_period(first_visit_date(df, phone))

\* df[df['month'] == month]: an elementwise == with NaT is False on every row
month_data(df, month) ==
    LET in_month(r) == month # NaT /\ to_period(r.job_date) = month
    IN SelectSeq(df, in_month)

first_day_data(df, md) ==
    LET is_first(r) == r.job_date # NaT /\ r.job_date = first_visit_date(df, r.phone)
    IN SelectSeq(md, is_first)

\* month_data[month_data['month'] == month_data['first_visit_month']]
new_data(df, md) ==
    LET is_new(r) == /\ to_period(r.job_date) # NaT
                     /\ to_period(r.job_date) = first_visit_month(df, r.phone)
    IN SelectSeq(md, is_new)

\* round(n / d) to an integer, ties to even (n >= 0, d > 0)
RoundHalfEven(n, d) ==
    LET q == n \div d
        r == n % d
    IN IF 2 * r < d THEN q
       ELSE IF 2 * r > d THEN q + 1
       ELSE IF q % 2 = 0 THEN q ELSE q + 1

TruncPercentage(count, total) ==
    IF total > 0 THEN Frac((count * 10000) \div total, 100) ELSE Zero

\* round((count / total * 100), 2) if total > 0 else 0
Percentage(count, total) ==
    IF total > 0 THEN Frac(RoundHalfEven(count * 10000, total), 100) ELSE Zero

\* lines 76-79 and 85-95: the record built from a month's counts and revenues
MonthRecord(label, total_customers, new_customers, month_revenue, new_revenue) ==
    [month |-> label,
     total_customers |-> total_customers,
     new_customers |-> new_customers,
     returning_customers |-> total_customers - new_customers,
     new_percentage |-> Percentage(new_customers, total_customers),
     returning_percentage |-> Percentage(total_customers - new_customers, total_customers),
     total_revenue |-> month_revenue,
     new_customer_revenue |-> new_revenue,
     returning_customer_revenue |-> month_revenue - new_revenue]

MonthResultCountingRows(df, month) ==
    LET md == month_data(df, month)
        nd == new_data(df, md)
    IN MonthRecord(PeriodStr(month), nunique(md), Len(nd), PriceSum(md), PriceSum(nd))

\* the body of the loop over the months
MonthResult(df, month) ==
    LET md == month_data(df, month)
        nd == new_data(df, md)
    IN MonthRecord(PeriodStr(month), nunique(md), nunique(nd), PriceSum(md), PriceSum(nd))

\* sorted(df['month'].unique())
Months(df) == sorted(unique([i \in 1..Len(df) |-> to_period(df[i].job_date)]))

monthly_results(df) ==
    LET months == Months(df)
    IN [k \in 1..Len(months) |-> MonthResult(df, months[k])]

\* ---- LTV
\* one customer's rows by job_date ascending, NaT last; rows that compare equal
\* (the same date, or both NaT) keep their original order
RECURSIVE SortByDate(_)
SortByDate(rows) ==
    IF rows = <<>> THEN <<>>
    ELSE LET front == SortByDate(SubSeq(rows, 1, Len(rows) - 1))
             x == rows[Len(rows)]
             after(r) == /\ x.job_date # NaT
                         /\ (r.job_date = NaT \/ DateLT(x.job_date, r.job_date))
             before == {i \in 1..Len(front) : ~after(front[i])}
             k == Cardinality(before)
         IN SubSeq(front, 1, k) \o <<x>> \o SubSeq(front, k + 1, Len(front))

\* df.sort_values(['phone', 'job_date'])
RECURSIVE SortedFrom(_, _)
SortedFrom(df, k) ==
    IF k > Len(Phones) THEN <<>>
    ELSE LET mine(r) == r.phone = Phones[k]
         IN SortByDate(SelectSeq(df, mine)) \o SortedFrom(df, k + 1)

sort_values(df) == SortedFrom(df, 1)

ungrouped_days_between_visits(ds) ==
    [i \in 1..Len(ds) |->
        IF i < Len(ds) /\ ds[i].job_date # NaT /\ ds[i + 1].job_date # NaT
        THEN <<Ordinal(ds[i + 1].job_date) - Ordinal(ds[i].job_date)>>
        ELSE NaT]

\* (next_visit - job_date).dt.days with next_visit = groupby('phone').shift(-1)
days_between_visits(ds) ==
    [i \in 1..Len(ds) |->
        IF i < Len(ds) /\ ds[i + 1].phone = ds[i].phone
              /\ ds[i].job_date # NaT /\ ds[i + 1].job_date # NaT
        THEN <<Ordinal(ds[i + 1].job_date) - Ordinal(ds[i].job_date)>>
        ELSE NaT]

RECURSIVE GapSum(_)
GapSum(g) == IF g = <<>> THEN 0
             ELSE (IF Head(g) = NaT THEN 0 ELSE Head(g)[1]) + GapSum(Tail(g))

GapCount(g) == Cardinality({i \in 1..Len(g) : g[i] # NaT})

churn_threshold == 180

ZeroFallback(g) ==
    IF GapCount(g) > 0 THEN Frac(GapSum(g), GapCount(g)) ELSE Zero

\* days_between_visits.mean() if not days_between_visits.isna().all() else 1
avg_days_between_visits(g) ==
    IF GapCount(g) > 0 THEN Frac(GapSum(g), GapCount(g)) ELSE FracOfInt(1)

\* churn_threshold / avg_days_between_visits if avg_days_between_visits > 0 else 0
avg_customer_lifespan(avg) ==
    IF avg.num > 0 THEN Frac(churn_threshold * avg.den, avg.num) ELSE Zero

Report(monthly, basic, advanced, value, frequency, lifespan) ==
    ("monthly_breakdown" :> monthly)
    @@ ("Basic LTV" :> basic)
    @@ ("Advanced LTV" :> advanced)
    @@ ("Average Purchase Value" :> value)
    @@ ("Average Purchase Frequency" :> frequency)
    @@ ("Average Customer LifeSpan (Months)" :> lifespan)

monthly_breakdown(df) ==
    LET total_revenue == PriceSum(df)
        unique_customers == nunique(df)
        basic_ltv == IF unique_customers > 0
                     THEN Frac(total_revenue, unique_customers) ELSE Zero
        avg_purchase_value == IF Len(df) > 0 THEN Frac(total_revenue, Len(df)) ELSE Zero
        avg_purchase_frequency == IF unique_customers > 0
                                  THEN Frac(Len(df), unique_customers) ELSE Zero
        gaps == days_between_visits(sort_values(df))
        lifespan == avg_customer_lifespan(avg_days_between_visits(gaps))
        advanced_ltv == FracMul(FracMul(avg_purchase_value, avg_purchase_frequency),
                                lifespan)
    IN Report(monthly_results(df), basic_ltv, advanced_ltv, avg_purchase_value,
              avg_purchase_frequency, lifespan)


\* ------------------------------------------------------------ clean_and_merge_data
Required == {"PHONE NO", "DRIVER PRICE", "JOB DATE"}

\* a cell of a column the file does not have is missing after pd.concat
MissingCell(c) ==
    IF c = "PHONE NO" THEN PhoneNaN ELSE IF c = "DRIVER PRICE" THEN PriceNaN ELSE NaT

\* one parsed CSV row; a JOB DATE text "DD/MM/YY HH:MM:SS" is <<DD, MM, YY>>,
\* a text of any other shape (or an empty cell) is <<>>
RawRow(phone, price, date) ==
    ("PHONE NO" :> phone) @@ ("DRIVER PRICE" :> price) @@ ("JOB DATE" :> date)

\* pd.read_csv of one file: its header and its rows
Table(columns, rows) ==
    [columns |-> columns,
     rows |-> [i \in 1..Len(rows) |->
                 [c \in Required |-> IF c \in columns THEN rows[i][c] ELSE MissingCell(c)]]]

RECURSIVE ConcatRows(_)
ConcatRows(tables) ==
    IF tables = <<>> THEN <<>> ELSE Head(tables).rows \o ConcatRows(Tail(tables))

\* pd.concat(dfs, ignore_index=True): the union of the columns, the rows in order
concat(tables) ==
    [columns |-> UNION {tables[i].columns : i \in 1..Len(tables)},
     rows |-> ConcatRows(tables)]

\* strptime %y: 69..99 are 19xx, 00..68 are 20xx
Year(yy) == IF yy >= 69 THEN 1900 + yy ELSE 2000 + yy

\* pd.to_datetime(text, format="%d/%m/%y %H:%M:%S", errors='coerce').dt.date
to_datetime(text) ==
    IF Len(text) # 3 THEN NaT
    ELSE IF text[2] \notin 1..12 THEN NaT
    ELSE IF text[1] \notin 1..DaysInMonth(Year(text[3]), text[2]) THEN NaT
    ELSE <<Year(text[3]), text[2], text[1]>>

NotNaOnly(phone) == phone # PhoneNaN

\* df_needed["phone"].notna() & (df_needed["phone"] != "")
KeepPhone(phone) == phone # PhoneNaN /\ phone # ""

AllColumnsMissing(columns) == Required \cap columns = {}

\* merged_df[['PHONE NO', 'DRIVER PRICE', 'JOB DATE']] raises KeyError
ColumnMissing(columns) == ~(Required \subseteq columns)

Raised(error) == [raised |-> error, df |-> <<>>]
Returned(rows) == [raised |-> "", df |-> rows]

clean_and_merge_data(contents_list) ==
    IF contents_list = <<>> THEN Raised("ValueError")
    ELSE LET merged_df == concat(contents_list)
             keep(r) == KeepPhone(r["PHONE NO"])
             kept == SelectSeq(merged_df.rows, keep)
         IN IF ColumnMissing(merged_df.columns) THEN Raised("KeyError")
            ELSE Returned([i \in 1..Len(kept) |->
                             [phone |-> kept[i]["PHONE NO"],
                              price |-> kept[i]["DRIVER PRICE"],
                              job_date |-> to_datetime(kept[i]["JOB DATE"])]])

\* ------------------------------------------------------------ state
VARIABLES
    pc,            \* "input" until the operation under study has run, then "done"
    df,            \* the cleaned dataset given to monthly_breakdown
    result,        \* what monthly_breakdown returned for df
    counts,        \* <<new_customers, total_customers>> given to the percentage step
    record,        \* the monthly record built from counts
    contents,      \* the uploaded tables, in upload order
    cleaned,       \* what clean_and_merge_data returned for contents
    file,          \* content of output_data.json, None while it does not exist
    stored_data,   \* the dcc.Store 'stored-data'
    message,       \* the 'loading-message' text
    page_content,  \* what display_page last rendered
    runs           \* the report monthly_breakdown computed in each successful upload

vars == <<pc, df, result, counts, record, contents, cleaned, file, stored_data,
          message, page_content, runs>>

None == <<>>

aggVars == <<df, result>>
pctVars == <<counts, record>>
cleanVars == <<contents, cleaned>>
sessionVars == <<file, stored_data, message, page_content, runs>>

IdleAgg == df = <<>> /\ result = None
IdlePct == counts = <<0, 0>> /\ record = None
IdleClean == contents = <<>> /\ cleaned = None
IdleSession == /\ file = None /\ stored_data = None /\ message = ""
               /\ page_content = "" /\ runs = <<>>

\* ------------------------------------------------------------ aggregator runs
AggPrices == {PriceNaN, 10, 20}
AggDates == {NaT, <<2023, 12, 31>>, <<2024, 1, 1>>, <<2024, 1, 31>>}
AggRows == [phone : {Phones[i] : i \in 1..Len(Phones)}, price : AggPrices,
            job_date : AggDates]
CleanedDatasets == UNION {[1..n -> AggRows] : n \in 0..MaxRows}

InitAgg == /\ pc = "input"
           /\ df \in CleanedDatasets
           /\ result = None
           /\ IdlePct /\ IdleClean /\ IdleSession

RunAggregator ==
    /\ pc = "input"
    /\ result' = monthly_breakdown(df)
    /\ pc' = "done"
    /\ UNCHANGED <<df, pctVars, cleanVars, sessionVars>>

NextAgg == RunAggregator

SpecAgg == InitAgg /\ [][NextAgg]_vars

\* ------------------------------------------------------------ percentage runs
CountPairs == {<<n, t>> : n \in 0..MaxCustomers, t \in 0..MaxCustomers}

InitPct == /\ pc = "input"
           /\ counts \in {c \in CountPairs : c[1] <= c[2]}
           /\ record = None
           /\ IdleAgg /\ IdleClean /\ IdleSession

\* a month with no customer is the record of the NaT "month"
BuildRecord ==
    /\ pc = "input"
    /\ record' = MonthRecord(IF counts[2] = 0 THEN PeriodStr(NaT) ELSE PeriodStr(<<2024, 1>>),
                             counts[2], counts[1], 0, 0)
    /\ pc' = "done"
    /\ UNCHANGED <<counts, aggVars, cleanVars, sessionVars>>

NextPct == BuildRecord

SpecPct == InitPct /\ [][NextPct]_vars

\* ------------------------------------------------------------ cleaning runs
RawRows == {RawRow(PhoneNaN, 10, <<31, 12, 23>>),
            RawRow("", 20, <<>>),
            RawRow("p1", 10, <<31, 12, 23>>),
            RawRow("p1", 20, <<30, 2, 24>>)}

RowLists(rows, maxRows) == UNION {[1..n -> rows] : n \in 0..maxRows}
UploadsOf(tables, maxFiles) == UNION {[1..n -> tables] : n \in 0..maxFiles}

CleanTables == {Table(Required, rows) : rows \in RowLists(RawRows, MaxFileRows)}
CleanUploads == UploadsOf(CleanTables, MaxFiles)

InitClean == /\ pc = "input"
             /\ contents \in CleanUploads
             /\ cleaned = None
             /\ IdleAgg /\ IdlePct /\ IdleSession

RunClean ==
    /\ pc = "input"
    /\ cleaned' = clean_and_merge_data(contents)
    /\ pc' = "done"
    /\ UNCHANGED <<contents, aggVars, pctVars, sessionVars>>

NextClean == RunClean

SpecClean == InitClean /\ [][NextClean]_vars

\* ------------------------------------------------------------ the session
\* json.load of what json.dump wrote: the report as written (strings, whole
\* numbers and floats round-trip unchanged), None while the file does not exist
load_processed_data == file

OverwriteBreakdown(existing_data, processed_data) == processed_data

\* lines 144-146: the stored records, then this run's
AppendBreakdown(existing_data, processed_data) ==
    IF existing_data # None
    THEN [processed_data EXCEPT !["monthly_breakdown"] =
              existing_data["monthly_breakdown"] \o @]
    ELSE processed_data

SessionColumns == {Required} \cup {Required \ {c} : c \in Required}
SessionRows == {RawRow("p1", 10, <<31, 12, 23>>)}
SessionTables == {Table(columns, <<row>>) : columns \in SessionColumns, row \in SessionRows}
SessionUploads == {<<>>} \cup {<<t>> : t \in SessionTables}
                         \cup {<<t, u>> : t, u \in SessionTables}

Init == /\ pc = "idle"
        /\ IdleAgg /\ IdlePct
        /\ contents = <<>> /\ cleaned = None
        /\ IdleSession

\* update_data with no contents: dash.no_update for the store, a warning
UpdateDataNoFile ==
    /\ contents' = <<>>
    /\ message' = "No file uploaded!"
    /\ pc' = "no_update"
    /\ UNCHANGED <<aggVars, pctVars, cleaned, file, stored_data, page_content, runs>>

\* update_data whose cleaning step raises: the callback sets no output
UpdateDataRaises(contents_list) ==
    /\ contents_list # <<>>
    /\ clean_and_merge_data(contents_list).raised # ""
    /\ contents' = contents_list
    /\ pc' = "raised"
    /\ UNCHANGED <<aggVars, pctVars, cleaned, sessionVars>>

\* update_data that runs to its return
UpdateDataReturns(contents_list) ==
    /\ contents_list # <<>>
    /\ clean_and_merge_data(contents_list).raised = ""
    /\ Len(runs) < MaxUploads
    /\ LET df_cleaned == clean_and_merge_data(contents_list)
           processed_data == AppendBreakdown(load_processed_data,
                                             monthly_breakdown(df_cleaned.df))
       IN /\ contents' = contents_list
          /\ file' = processed_data
          /\ stored_data' = processed_data
          /\ message' = "Files uploaded & processed!"
          /\ runs' = Append(runs, monthly_breakdown(df_cleaned.df))
    /\ pc' = "returned"
    /\ UNCHANGED <<aggVars, pctVars, cleaned, page_content>>

update_data ==
    \/ UpdateDataNoFile
    \/ \E contents_list \in SessionUploads : UpdateDataRaises(contents_list)
    \/ \E contents_list \in SessionUploads : UpdateDataReturns(contents_list)

\* a browser whose local storage holds no 'stored-data' opens the app
NewBrowser ==
    /\ stored_data # None
    /\ stored_data' = None
    /\ UNCHANGED <<pc, aggVars, pctVars, cleanVars, file, message, page_content, runs>>

display_page(pathname) ==
    LET data == IF stored_data # None THEN stored_data ELSE load_processed_data
    IN /\ page_content' = IF data = None THEN "Upload a file to begin."
                          ELSE IF pathname = "/ltv" THEN "LTV Calculations"
                          ELSE "Data Table"
       /\ UNCHANGED <<pc, aggVars, pctVars, cleanVars, file, stored_data, message, runs>>

Next == \/ update_data
        \/ NewBrowser
        \/ \E pathname \in {"/", "/ltv"} : display_page(pathname)

Spec == Init /\ [][Next]_vars

\* ============================================================ properties
\* ---- what the records are compared with, stated on the dataset itself
Dated(d) == {i \in 1..Len(d) : d[i].job_date # NaT}
CalendarMonths(d) == {<<d[i].job_date[1], d[i].job_date[2]>> : i \in Dated(d)}
RowsIn(d, M) == {i \in Dated(d) : <<d[i].job_date[1], d[i].job_date[2]>> = M}
PhonesIn(d, M) == {d[i].phone : i \in RowsIn(d, M)}
DatedPhones(d) == {d[i].phone : i \in Dated(d)}
EarliestRows(d, p) ==
    {i \in Dated(d) : /\ d[i].phone = p
                      /\ \A j \in Dated(d) :
                            d[j].phone = p => Ordinal(d[i].job_date) <= Ordinal(d[j].job_date)}
NewPhonesIn(d, M) == {p \in PhonesIn(d, M) : EarliestRows(d, p) \cap RowsIn(d, M) # {}}
NewRowsIn(d, M) == {i \in RowsIn(d, M) : d[i].phone \in NewPhonesIn(d, M)}

RECURSIVE SumPrices(_, _)
SumPrices(d, rows) ==
    IF rows = {} THEN 0
    ELSE LET i == CHOOSE j \in rows : TRUE
         IN (IF d[i].price = PriceNaN THEN 0 ELSE d[i].price) + SumPrices(d, rows \ {i})

Label(M) == PeriodStr(M)
Breakdown == result["monthly_breakdown"]
AggDone == pc = "done" /\ result # None

\* the month a record stands for: a calendar month of the dataset, or NaT
MonthOf(rec) == CHOOSE M \in CalendarMonths(df) \cup {NaT} : Label(M) = rec.month

\* C1: in every monthly record for month M, total_customers is the number of
\* distinct phones with a row dated in M, new_customers the number of distinct
\* phones whose earliest job_date falls in M, returning_customers their
\* difference, and 0 <= new_customers <= total_customers.
C1_CustomerCounts ==
    AggDone =>
      \A k \in 1..Len(Breakdown) :
        LET rec == Breakdown[k]
        IN /\ \E M \in CalendarMonths(df) \cup {NaT} : Label(M) = rec.month
           /\ rec.total_customers = Cardinality(PhonesIn(df, MonthOf(rec)))
           /\ rec.new_customers = Cardinality(NewPhonesIn(df, MonthOf(rec)))
           /\ rec.returning_customers = rec.total_customers - rec.new_customers
           /\ rec.new_customers + rec.returning_customers = rec.total_customers
           /\ 0 <= rec.new_customers /\ rec.new_customers <= rec.total_customers

\* a month with one new and one returning customer
C1_Witness ==
    /\ AggDone
    /\ \E k \in 1..Len(Breakdown) :
          /\ Breakdown[k].total_customers = 2
          /\ Breakdown[k].new_customers = 1
          /\ Breakdown[k].returning_customers = 1

\* the calendar months of the dataset, ascending
RECURSIVE Ascending(_)
Ascending(months) ==
    IF months = {} THEN <<>>
    ELSE LET first == CHOOSE M \in months : \A N \in months : ~PeriodLT(N, M)
         IN <<first>> \o Ascending(months \ {first})

\* C2: the monthly sequence is strictly increasing by calendar month and holds
\* exactly one record for each calendar month with a dated row; null-dated rows
\* produce no record.
C2_StrictChronology ==
    AggDone =>
      LET expected == Ascending(CalendarMonths(df))
      IN /\ Len(Breakdown) = Len(expected)
         /\ \A k \in 1..Len(Breakdown) : Breakdown[k].month = Label(expected[k])

\* C3 as stated: on the empty dataset the breakdown is empty and all five LTV
\* fields are 0.
C3_EmptyAllZero ==
    (AggDone /\ df = <<>>) =>
      /\ Breakdown = <<>>
      /\ result["Basic LTV"] = Zero
      /\ result["Advanced LTV"] = Zero
      /\ result["Average Purchase Value"] = Zero
      /\ result["Average Purchase Frequency"] = Zero
      /\ result["Average Customer LifeSpan (Months)"] = Zero

\* C3 amended: on the empty dataset the breakdown is empty, four LTV fields are
\* 0, and the lifespan is 180 (no gap sample, so the fallback 1 divides 180).
C3_EmptyDataset ==
    (AggDone /\ df = <<>>) =>
      /\ Breakdown = <<>>
      /\ result["Basic LTV"] = Zero
      /\ result["Advanced LTV"] = Zero
      /\ result["Average Purchase Value"] = Zero
      /\ result["Average Purchase Frequency"] = Zero
      /\ result["Average Customer LifeSpan (Months)"] = FracOfInt(churn_threshold)

C3_Witness ==
    /\ AggDone /\ df = <<>>
    /\ result["Average Customer LifeSpan (Months)"].num = 180

\* C4: in every monthly record for month M, total_revenue is the sum of the
\* non-null prices of the rows dated in M, new_customer_revenue the sum of the
\* non-null prices of those rows that belong to customers whose earliest
\* job_date falls in M, and returning_customer_revenue their difference.
C4_Revenue ==
    AggDone =>
      \A k \in 1..Len(Breakdown) :
        LET rec == Breakdown[k]
            M == MonthOf(rec)
        IN /\ rec.total_revenue = SumPrices(df, RowsIn(df, M))
           /\ rec.new_customer_revenue = SumPrices(df, NewRowsIn(df, M))
           /\ rec.returning_customer_revenue = rec.total_revenue - rec.new_customer_revenue
           /\ rec.new_customer_revenue + rec.returning_customer_revenue = rec.total_revenue

\* a customer with an unpriced and a 10 row in the first month (revenue 10, all
\* of it new) who returns in a later month (revenue 20, all of it returning)
C4_Witness ==
    /\ AggDone
    /\ \E i, j \in 1..Len(df) :
          /\ df[i].phone = df[j].phone /\ df[i].job_date = df[j].job_date
          /\ df[i].job_date # NaT
          /\ df[i].price = PriceNaN /\ df[j].price = 10
    /\ Len(Breakdown) = 2
    /\ Breakdown[1].total_revenue = 10
    /\ Breakdown[1].new_customer_revenue = 10
    /\ Breakdown[2].new_customer_revenue = 0
    /\ Breakdown[2].returning_customer_revenue = 20

\* ---- the gaps, stated per customer: consecutive gaps of the dated rows add up
\* to latest - earliest, and there is one gap fewer than dated rows
DatedRowsOf(d, p) == {i \in Dated(d) : d[i].phone = p}
OrdinalsOf(d, p) == {Ordinal(d[i].job_date) : i \in DatedRowsOf(d, p)}
Greatest(S) == CHOOSE x \in S : \A y \in S : y <= x
Least(S) == CHOOSE x \in S : \A y \in S : x <= y

RECURSIVE TotalGapDays(_, _)
TotalGapDays(d, phones) ==
    IF phones = {} THEN 0
    ELSE LET p == CHOOSE q \in phones : TRUE
         IN (Greatest(OrdinalsOf(d, p)) - Least(OrdinalsOf(d, p)))
            + TotalGapDays(d, phones \ {p})

RECURSIVE GapSamples(_, _)
GapSamples(d, phones) ==
    IF phones = {} THEN 0
    ELSE LET p == CHOOSE q \in phones : TRUE
         IN (Cardinality(DatedRowsOf(d, p)) - 1) + GapSamples(d, phones \ {p})

Lifespan == result["Average Customer LifeSpan (Months)"]

\* C5: the lifespan is 180 divided by the mean whole-day gap between a
\* customer's consecutive rows; with no gap sample it is exactly 180, with
\* samples whose mean is <= 0 it is 0.
C5_Lifespan ==
    AggDone =>
      LET samples == GapSamples(df, DatedPhones(df))
          days == TotalGapDays(df, DatedPhones(df))
      IN /\ samples = 0 => Lifespan = FracOfInt(180)
         /\ (samples > 0 /\ days <= 0) => Lifespan = Zero
         /\ (samples > 0 /\ days > 0) =>
               /\ Lifespan.den > 0
               /\ Lifespan.num * days = 180 * samples * Lifespan.den

\* one customer with a single row, one with two rows 31 days apart: the mean
\* gap is 31 days, the lifespan 180/31
C5_Witness ==
    /\ AggDone
    /\ Cardinality(DatedPhones(df)) = 2
    /\ GapSamples(df, DatedPhones(df)) = 1
    /\ Lifespan = [num |-> 180, den |-> 31]

\* C10: every customer with a dated row is counted as new in exactly one
\* monthly record, that of the month of their earliest job_date; the
\* new_customers of all records add up to the number of distinct phones with a
\* dated row, and customers with only null dates are counted nowhere.
RECURSIVE SumNew(_)
SumNew(recs) == IF recs = <<>> THEN 0 ELSE Head(recs).new_customers + SumNew(Tail(recs))

C10_NewOnce ==
    AggDone =>
      /\ SumNew(Breakdown) = Cardinality(DatedPhones(df))
      /\ \A p \in DatedPhones(df) :
            LET M == CHOOSE N \in CalendarMonths(df) : EarliestRows(df, p) \cap RowsIn(df, N) # {}
                mine == {k \in 1..Len(Breakdown) : Breakdown[k].month = Label(M)}
            IN /\ Cardinality(mine) = 1
               /\ \A k \in mine : Breakdown[k].new_customers = Cardinality(NewPhonesIn(df, M))
      /\ \A k \in 1..Len(Breakdown) :
            Breakdown[k].month = Label(NaT) => Breakdown[k].new_customers = 0

\* a customer seen in two months and a customer with only a null date
C10_Witness ==
    /\ AggDone
    /\ Cardinality(CalendarMonths(df)) = 2
    /\ Cardinality(DatedPhones(df)) = 1
    /\ \E i \in 1..Len(df) : df[i].phone \notin DatedPhones(df)
    /\ SumNew(Breakdown) = 1

\* C8: with total_customers > 0 each percentage is the share times 100 rounded
\* to 2 decimals (within 0.005 of the exact value, at most 2 decimals) and the
\* two add up to 100 within 0.01; with total_customers = 0 both are 0.
Rounded2(pct, count, total) ==
    /\ 100 % pct.den = 0
    /\ LET diff == pct.num * total - 100 * count * pct.den
       IN 200 * (IF diff < 0 THEN -diff ELSE diff) <= pct.den * total

C8_Percentages ==
    (pc = "done" /\ record # None) =>
      LET new == record.new_percentage
          ret == record.returning_percentage
          sum == new.num * ret.den + ret.num * new.den
          off == sum - 100 * new.den * ret.den
      IN IF record.total_customers > 0
         THEN /\ Rounded2(new, record.new_customers, record.total_customers)
              /\ Rounded2(ret, record.returning_customers, record.total_customers)
              /\ 100 * (IF off < 0 THEN -off ELSE off) <= new.den * ret.den
         ELSE new = Zero /\ ret = Zero

\* 2 of 3 customers are new: 66.67 and 33.33
C8_Witness ==
    /\ pc = "done" /\ record # None
    /\ record.total_customers = 3 /\ record.new_customers = 2
    /\ record.new_percentage = [num |-> 6667, den |-> 100]
    /\ record.returning_percentage = [num |-> 3333, den |-> 100]

\* ---- cleaning
RECURSIVE FlatRows(_)
FlatRows(tables) ==
    IF tables = <<>> THEN <<>>
    ELSE FlatRows(SubSeq(tables, 1, Len(tables) - 1)) \o tables[Len(tables)].rows

KeptRows(rows) == {i \in 1..Len(rows) : rows[i]["PHONE NO"] \notin {PhoneNaN, ""}}

\* the only JOB DATE text of the uploads that is a date
ExpectedDate(text) == IF text = <<31, 12, 23>> THEN <<2023, 12, 31>> ELSE NaT

\* C9: the cleaned dataset is the concatenation of the tables in upload order
\* without the rows whose phone is null or empty; every other row is kept once
\* per occurrence, in order, a row with an unparseable date with a null date.
C9_Cleaned ==
    (pc = "done" /\ cleaned # None /\ contents # <<>>) =>
      LET rows == FlatRows(contents)
          kept == KeptRows(rows)
      IN /\ cleaned.raised = ""
         /\ Len(cleaned.df) = Cardinality(kept)
         /\ \A j \in kept :
               LET k == Cardinality({i \in kept : i <= j})
               IN /\ cleaned.df[k].phone = rows[j]["PHONE NO"]
                  /\ cleaned.df[k].price = rows[j]["DRIVER PRICE"]
                  /\ cleaned.df[k].job_date = ExpectedDate(rows[j]["JOB DATE"])

\* two files: an identical row in both, a dropped row, a row with a bad date
C9_Witness ==
    /\ pc = "done" /\ cleaned # None /\ Len(contents) = 2
    /\ Len(FlatRows(contents)) = 4
    /\ Len(cleaned.df) = 3
    /\ cleaned.df[1] = cleaned.df[3]
    /\ cleaned.df[1].job_date = <<2023, 12, 31>>
    /\ cleaned.df[2].job_date = NaT
    /\ contents[1].rows[1]["PHONE NO"] = ""

\* ---- the session
MergedColumns(tables) == UNION {tables[i].columns : i \in 1..Len(tables)}
FailingUpload(tables) == tables = <<>> \/ \E c \in Required : c \notin MergedColumns(tables)

\* C6: an upload whose merged columns lack a required column, or an upload
\* with no contents, stores no report and leaves the persisted file as it was.
C6_FailedUploadChangesNothing ==
    [][((contents' # contents \/ pc' # pc) /\ FailingUpload(contents'))
          => (file' = file /\ stored_data' = stored_data)]_vars

\* a failed upload after a successful one: the earlier report is still there
C6_Witness ==
    /\ pc = "raised"
    /\ contents # <<>> /\ FailingUpload(contents)
    /\ file # None /\ stored_data = file

RECURSIVE ConcatBreakdowns(_)
ConcatBreakdowns(reports) ==
    IF reports = <<>> THEN <<>>
    ELSE ConcatBreakdowns(SubSeq(reports, 1, Len(reports) - 1))
         \o reports[Len(reports)]["monthly_breakdown"]

\* C7: starting with no persisted file, after successful uploads the persisted
\* and returned report holds the monthly records of every run, concatenated in
\* upload order without merging, and the LTV fields of the latest run.
C7_AppendHistory ==
    /\ runs = <<>> => file = None
    /\ runs # <<>> =>
          /\ file # None
          /\ file = [runs[Len(runs)] EXCEPT !["monthly_breakdown"] = ConcatBreakdowns(runs)]
    /\ stored_data # None => stored_data = file

\* two runs with the same month: two entries for it; LTV of the second run
C7_Witness ==
    /\ Len(runs) = 2
    /\ runs[1] # runs[2]
    /\ Len(file["monthly_breakdown"]) = 3
    /\ file["monthly_breakdown"][1].month = "2023-12"
    /\ file["monthly_breakdown"][2].month = "2023-12"
    /\ file["Basic LTV"] = runs[2]["Basic LTV"]
    /\ file["Basic LTV"] # runs[1]["Basic LTV"]

====
